---- MODULE Spec2Model ----
(***************************************************************************)
(* A model of mm_llm_bridge.py: the MeshMonitor LLM bridge script.         *)
(*                                                                         *)
(* A Python str is modelled as a sequence of characters; a character is a  *)
(* one-element TLA+ string (ASCII) or the name of a Unicode scalar value   *)
(* ("U+20AC").  Every character has a UTF-8 encoding of 1 to 4 bytes.      *)
(* Python's None is the value None below, which is no str.                 *)
(***************************************************************************)
EXTENDS Integers, Sequences, FiniteSets, TLC

VARIABLES
    \* module-level configuration (src lines 42-74), read once at start-up
    LLM_PROVIDER, HTTP_RETRIES, MAX_MSG_CHARS, MAX_MSG_BYTES,
    MAX_CHUNKS, SPLIT_LONG_RESPONSES, TRUNCATE_WITH_ELLIPSIS,
    \* the process: standard input, standard output, the position in main
    \* and in the __main__ block, and the locals of main
    stdin, stdout, pc, exc, payload, msg_in, trig, prompt, answer,
    main_chunks, llm_calls,
    \* the locals of call_openai_compat / call_ollama, the number of sleeps
    \* taken and the outcome of every HTTP request made so far
    i, r, last_err, sleeps, http_log,
    \* one call of a pure function: its arguments and what it returned
    call, ret,
    \* split_meshtastic: parameters, locals and position
    text, max_chars, max_bytes, remaining, chunks, brk, split_pc

confVars  == <<LLM_PROVIDER, HTTP_RETRIES, MAX_MSG_CHARS, MAX_MSG_BYTES,
               MAX_CHUNKS, SPLIT_LONG_RESPONSES, TRUNCATE_WITH_ELLIPSIS>>
mainVars  == <<stdin, stdout, pc, exc, payload, msg_in, trig, prompt, answer,
               main_chunks, llm_calls>>
llmVars   == <<i, r, last_err, sleeps, http_log>>
unitVars  == <<call, ret>>
splitVars == <<text, max_chars, max_bytes, remaining, chunks, brk, split_pc>>
vars      == <<confVars, mainVars, llmVars, unitVars, splitVars>>

----------------------------------------------------------------------------
(* Bounds of the model *)

\* longest freely chosen part of an input text
MaxTail == 2
\* MAX_CHUNKS ranges over 1..MaxChunksCfg
MaxChunksCfg == 3
\* longest freely chosen part of an inbound message
MaxMsgTail == 2
\* HTTP_RETRIES ranges over 0..MaxRetries
MaxRetries == 2

----------------------------------------------------------------------------
(* Python str primitives *)

Min(a, b) == IF a <= b THEN a ELSE b
Max(a, b) == IF a >= b THEN a ELSE b

\* the ellipsis character of split_meshtastic, ell = "…" (3 bytes)
ELL == "U+2026"

\* number of bytes of c.encode("utf-8")
Utf8Width(c) ==
    CASE c = "U+00E9"              -> 2
      [] c \in {"U+20AC", "U+2026"} -> 3
      [] c = "U+1F600"             -> 4
      [] OTHER                     -> 1

\* len(s.encode("utf-8")): the sum of the widths, one byte per character
\* plus one more for each character of width >= 2, >= 3 and 4
Utf8Len(s) ==
    Len(s) + Cardinality({k \in 1..Len(s) : Utf8Width(s[k]) >= 2})
           + Cardinality({k \in 1..Len(s) : Utf8Width(s[k]) >= 3})
           + Cardinality({k \in 1..Len(s) : Utf8Width(s[k]) >= 4})

\* the characters str.strip()/lstrip()/rstrip() remove
IsSpace(c) == c \in {" ", "\t", "\n"}

\* s[:n]
PyPrefix(s, n) ==
    IF n >= 0 THEN SubSeq(s, 1, Min(n, Len(s)))
    ELSE SubSeq(s, 1, Max(0, Len(s) + n))

\* s[n:] for n >= 0
PyFrom(s, n) == SubSeq(s, Min(n, Len(s)) + 1, Len(s))

\* s.lstrip(): from the first character that is no whitespace
LStrip(s) ==
    LET keep == {k \in 1..Len(s) : ~IsSpace(s[k])}
    IN  IF keep = {} THEN <<>>
        ELSE SubSeq(s, CHOOSE k \in keep : \A j \in keep : k <= j, Len(s))

\* s.rstrip(): up to the last character that is no whitespace
RStrip(s) ==
    LET keep == {k \in 1..Len(s) : ~IsSpace(s[k])}
    IN  IF keep = {} THEN <<>>
        ELSE SubSeq(s, 1, CHOOSE k \in keep : \A j \in keep : j <= k)

Strip(s) == LStrip(RStrip(s))

\* s.rfind(" "): the 0-based index of the last space, or -1
RFindSpace(s) ==
    LET at == {k \in 1..Len(s) : s[k] = " "}
    IN  IF at = {} THEN -1 ELSE (CHOOSE k \in at : \A j \in at : j <= k) - 1

----------------------------------------------------------------------------
(* clamp_utf8 *)

\* while text and len(text.encode("utf-8")) > max_bytes: text = text[:-1]
\* the loop removes one trailing character at a time and stops at the first
\* prefix, from the longest down, that is empty or within max_bytes
DropWhileOver(t, b) ==
    LET stops == {n \in 0..Len(t) : n = 0 \/ Utf8Len(PyPrefix(t, n)) <= b}
    IN  PyPrefix(t, CHOOSE n \in stops : \A m \in stops : m <= n)

\* a faulty variant: the byte bound is never applied
clamp_utf8_chars_only(t, c, b) == IF Len(t) > c THEN PyPrefix(t, c) ELSE t

clamp_utf8(t, c, b) ==
    LET t1 == IF Len(t) > c THEN PyPrefix(t, c) ELSE t
    IN  IF Utf8Len(t1) <= b THEN t1 ELSE DropWhileOver(t1, b)

----------------------------------------------------------------------------
(* split_meshtastic *)

\* candidate = clamp_utf8(remaining[:max_chars], max_chars, max_bytes)
Candidate(rem, c, b) == clamp_utf8(PyPrefix(rem, c), c, b)

\* int(0.4 * n): 0.4 is the double just above 2/5, so the product never
\* falls below the exact value and int() gives floor(2n/5)
Int04(n) == (2 * n) \div 5

\* cut = len(candidate); ws = candidate.rfind(" ");
\* if ws >= max(10, int(0.4 * len(candidate))): cut = ws
Cut(candidate) ==
    LET ws == RFindSpace(candidate)
    IN  IF ws >= Max(10, Int04(Len(candidate))) THEN ws ELSE Len(candidate)

\* part = candidate[:cut].rstrip(); if not part: part = candidate;
\* part = clamp_utf8(part, max_chars, max_bytes)
Part(candidate, c, b) ==
    LET p == RStrip(PyPrefix(candidate, Cut(candidate)))
    IN  clamp_utf8(IF p = <<>> THEN candidate ELSE p, c, b)

\* a faulty variant: the character after the part is skipped along with it
Advance_skip_one(rem, part) == LStrip(PyFrom(rem, Len(part) + 1))

\* a faulty variant: the last character of the part is left in the remaining text
Advance_short(rem, part) == LStrip(PyFrom(rem, Len(part) - 1))

\* remaining = remaining[len(part):].lstrip()
Advance(rem, part) == LStrip(PyFrom(rem, Len(part)))

\* last = chunks[-1].rstrip(); last = clamp_utf8(last, max_chars - len(ell),
\* max_bytes - len(ell.encode("utf-8"))); chunks[-1] = (last + ell) if last else ell
WithEllipsis(chs, c, b) ==
    LET last == clamp_utf8(RStrip(chs[Len(chs)]), c - 1, b - Utf8Width(ELL))
    IN  [chs EXCEPT ![Len(chs)] = IF last # <<>> THEN Append(last, ELL) ELSE <<ELL>>]

\* len(chunks) >= MAX_CHUNKS and remaining
AtCap(chs, rem) == Len(chs) >= MAX_CHUNKS /\ rem # <<>>

\* one pass through the body of `while remaining:`; brk says which break,
\* if any, left the loop
LoopBody(rem, chs, c, b) ==
    LET candidate == Candidate(rem, c, b)
        part      == Part(candidate, c, b)
        chs1      == Append(chs, part)
        rem1      == Advance(rem, part)
    IN  IF candidate = <<>>
        THEN [remaining |-> rem, chunks |-> chs, brk |-> "no_candidate"]
        ELSE IF AtCap(chs1, rem1)
        THEN [remaining |-> rem1,
              chunks    |-> IF TRUNCATE_WITH_ELLIPSIS
                            THEN WithEllipsis(chs1, c, b) ELSE chs1,
              brk       |-> "cap"]
        ELSE [remaining |-> rem1, chunks |-> chs1, brk |-> ""]

RECURSIVE Loop(_, _, _, _)
\* the whole while loop, then `return chunks if chunks else [""]`
Loop(rem, chs, c, b) ==
    IF rem = <<>> THEN (IF chs # <<>> THEN chs ELSE << <<>> >>)
    ELSE LET st == LoopBody(rem, chs, c, b)
         IN  IF st.brk # ""
             THEN (IF st.chunks # <<>> THEN st.chunks ELSE << <<>> >>)
             ELSE Loop(st.remaining, st.chunks, c, b)

\* split_meshtastic(text, max_chars, max_bytes)
split_meshtastic(t, c, b) ==
    LET s == Strip(t)
    IN  IF s = <<>> THEN << <<>> >>
        ELSE IF Len(s) <= c /\ Utf8Len(s) <= b THEN <<s>>
        ELSE Loop(s, <<>>, c, b)

----------------------------------------------------------------------------
(* parse_prompt *)

\* Python's None
None == <<"None">>

AGENT_TRIGGERS == <<<<"!", "a", "s", "k">>, <<"@", "c", "l", "a", "w">>, <<"@", "a", "i">>>>
HELP_TRIGGERS ==
    <<<<"!", "a", "s", "k", " ", "h", "e", "l", "p">>,
      <<"@", "c", "l", "a", "w", " ", "h", "e", "l", "p">>,
      <<"@", "a", "i", " ", "h", "e", "l", "p">>>>

UpperLetters ==
    <<"A", "B", "C", "D", "E", "F", "G", "H", "I", "J", "K", "L", "M",
      "N", "O", "P", "Q", "R", "S", "T", "U", "V", "W", "X", "Y", "Z">>
LowerLetters ==
    <<"a", "b", "c", "d", "e", "f", "g", "h", "i", "j", "k", "l", "m",
      "n", "o", "p", "q", "r", "s", "t", "u", "v", "w", "x", "y", "z">>

LowerChar(ch) ==
    IF \E k \in 1..26 : UpperLetters[k] = ch
    THEN LowerLetters[CHOOSE k \in 1..26 : UpperLetters[k] = ch]
    ELSE ch

\* s.lower()
Lower(s) == [k \in 1..Len(s) |-> LowerChar(s[k])]

\* re.sub(r"^[:\-]\s*", "", rest)
StripSeparator(rest) ==
    IF rest # <<>> /\ rest[1] \in {":", "-"} THEN LStrip(Tail(rest)) ELSE rest

\* m.startswith(trig)
StartsWith(m, tg) == Len(m) >= Len(tg) /\ SubSeq(m, 1, Len(tg)) = tg

\* the parse_prompt result: <<trigger, prompt>>
parse_prompt(msg) ==
    LET m == Strip(msg)
        matching == {k \in 1..Len(AGENT_TRIGGERS) : StartsWith(m, AGENT_TRIGGERS[k])}
        first == CHOOSE k \in matching : \A j \in matching : k <= j
        tg == AGENT_TRIGGERS[first]
    IN  IF m = <<>> THEN <<None, None>>
        ELSE IF \E k \in 1..Len(HELP_TRIGGERS) : Lower(m) = Lower(HELP_TRIGGERS[k])
        THEN <<<<"h", "e", "l", "p">>, <<>> >>
        ELSE IF matching # {}
        THEN <<tg, StripSeparator(Strip(PyFrom(m, Len(tg))))>>
        ELSE <<None, None>>

----------------------------------------------------------------------------
(* JSON values, as json.loads returns them *)

JStr(v)  == [t |-> "str",  v |-> v]
JList(v) == [t |-> "list", v |-> v]
\* a dict: v is a function from its keys to JSON values
JDict(v) == [t |-> "dict", v |-> v]
JNum     == [t |-> "int",  v |-> <<>>]
JNull    == [t |-> "NoneType", v |-> <<>>]
EmptyDict == JDict(<<>>)

\* d.get(k, default) of a dict d
Get(d, k, default) == IF k \in DOMAIN d.v THEN d.v[k] ELSE default

\* isinstance(x, str) and x.strip()
NonBlankStr(x) == x.t = "str" /\ Strip(x.v) # <<>>

\* type(x).__name__
TypeName(x) ==
    CASE x.t = "str"  -> <<"s", "t", "r">>
      [] x.t = "list" -> <<"l", "i", "s", "t">>
      [] x.t = "dict" -> <<"d", "i", "c", "t">>
      [] x.t = "int"  -> <<"i", "n", "t">>
      [] OTHER        -> <<"N", "o", "n", "e", "T", "y", "p", "e">>

\* str(e) of the AttributeError that x.get raises when x is no dict
AttributeError(x) ==
    <<"'">> \o TypeName(x) \o <<"'", " ", "o", "b", "j", "e", "c", "t", " ", "h", "a", "s", " ", "n", "o", " ", "a", "t", "t", "r", "i", "b", "u", "t", "e", " ", "'", "g", "e", "t", "'">>

----------------------------------------------------------------------------
(* read_stdin_json, extract_message *)

\* str(e) of the error sys.stdin.read() raises on a byte that is no UTF-8
UnicodeDecodeError ==
    <<"'", "u", "t", "f", "-", "8", "'", " ", "c", "o", "d", "e", "c", " ", "c", "a", "n", "'", "t", " ", "d", "e", "c", "o", "d", "e", " ", "b", "y", "t", "e", " ", "0", "x", "f", "f", " ">>
    \o <<"i", "n", " ", "p", "o", "s", "i", "t", "i", "o", "n", " ", "0", ":", " ", "i", "n", "v", "a", "l", "i", "d", " ", "s", "t", "a", "r", "t", " ", "b", "y", "t", "e">>

\* standard input is empty (or blank), a JSON text, or any other text
read_stdin_json(in) ==
    CASE in.kind = "empty" -> EmptyDict
      [] in.kind = "json"  -> in.json
      [] in.kind = "text"  -> JDict([message |-> JStr(Strip(in.raw))])

FlatKeys == <<"message", "text", "msg", "body", "content">>

NestedPaths ==
    << <<"packet", "decoded", "payload", "text">>,
       <<"packet", "decoded", "payload", "message">>,
       <<"packet", "decoded", "text">>,
       <<"decoded", "payload", "text">>,
       <<"decoded", "text">>,
       <<"payload", "text">> >>

RECURSIVE dig(_, _)
\* the str at the end of the path, stripped, or None
dig(cur, path) ==
    IF path = <<>> THEN (IF cur.t = "str" THEN Strip(cur.v) ELSE None)
    ELSE IF cur.t # "dict" \/ Head(path) \notin DOMAIN cur.v THEN None
    ELSE dig(cur.v[Head(path)], Tail(path))

\* extract_message of a dict
extract_message(p) ==
    LET flat == {k \in 1..Len(FlatKeys) : NonBlankStr(Get(p, FlatKeys[k], JNull))}
        deep == {k \in 1..Len(NestedPaths) :
                    dig(p, NestedPaths[k]) \notin {None, <<>>}}
    IN  IF flat # {}
        THEN Strip(p.v[FlatKeys[CHOOSE k \in flat : \A j \in flat : k <= j]].v)
        ELSE IF deep # {}
        THEN dig(p, NestedPaths[CHOOSE k \in deep : \A j \in deep : k <= j])
        ELSE <<>>

----------------------------------------------------------------------------
(* normalize_for_radio, ensure_under_limits, help_text *)

IsBlank(ch) == ch \in {" ", "\t"}

\* re.sub(r"[ \t]{2,}", " ", t): a run of two or more blanks becomes one
\* space; a blank that stands alone is kept as it is
CollapseBlanks(s) ==
    LET inRun(k) == IsBlank(s[k]) /\ ((k > 1 /\ IsBlank(s[k - 1]))
                                    \/ (k < Len(s) /\ IsBlank(s[k + 1])))
        marked == [k \in 1..Len(s) |->
                      IF ~inRun(k) THEN s[k]
                      ELSE IF k > 1 /\ IsBlank(s[k - 1]) THEN "dropped"
                      ELSE " "]
    IN  SelectSeq(marked, LAMBDA ch : ch # "dropped")

\* re.sub(r"\n{3,}", "\n\n", t): of a run of three or more newlines the first
\* two are kept
CollapseNewlines(s) ==
    LET marked == [k \in 1..Len(s) |->
                      IF k >= 3 /\ s[k] = "\n" /\ s[k - 1] = "\n" /\ s[k - 2] = "\n"
                      THEN "dropped" ELSE s[k]]
    IN  SelectSeq(marked, LAMBDA ch : ch # "dropped")

normalize_for_radio(t) == Strip(CollapseNewlines(CollapseBlanks(Strip(t))))

NoResponse == <<"N", "o", " ", "r", "e", "s", "p", "o", "n", "s", "e", ".">>

ensure_under_limits(ans) ==
    LET n == normalize_for_radio(ans)
        a == IF n = <<>> THEN NoResponse ELSE n
    IN  IF SPLIT_LONG_RESPONSES
        THEN split_meshtastic(a, MAX_MSG_CHARS, MAX_MSG_BYTES)
        ELSE <<clamp_utf8(a, MAX_MSG_CHARS, MAX_MSG_BYTES)>>

\* f"Usage: start with {triggers}. Example: !ask What is 5x5?"
help_text ==
    <<"U", "s", "a", "g", "e", ":", " ", "s", "t", "a", "r", "t", " ", "w", "i", "t", "h", " ">>
    \o AGENT_TRIGGERS[1] \o <<",", " ">> \o AGENT_TRIGGERS[2] \o <<",", " ">>
    \o AGENT_TRIGGERS[3]
    \o <<".", " ", "E", "x", "a", "m", "p", "l", "e", ":", " ", "!", "a", "s", "k", " ", "W", "h", "a", "t", " ", "i", "s", " ", "5", "x", "5", "?">>

NoTriggerText == <<"N", "o", " ", "t", "r", "i", "g", "g", "e", "r", ".", " ", "T", "r", "y", ":", " ", "!", "a", "s", "k", " ", "h", "e", "l", "p">>
MissingPromptText == <<"M", "i", "s", "s", "i", "n", "g", " ", "p", "r", "o", "m", "p", "t", ".", " ", "T", "r", "y", ":", " ", "!", "a", "s", "k", " ", "h", "e", "l", "p">>

\* out_single, out_multi: the JSON envelope written to standard output
out_single(msg)  == [key |-> "response",  value |-> <<msg>>]
out_multi(msgs)  == [key |-> "responses", value |-> msgs]

\* out_single(chunks[0]) if len(chunks) == 1 else out_multi(chunks)
out_by_count(chs) == IF Len(chs) = 1 THEN out_single(chs[1]) ELSE out_multi(chs)

----------------------------------------------------------------------------
(* call_openai_compat, call_ollama: what one response body yields *)

NoContent == <<"N", "o", " ", "r", "e", "s", "p", "o", "n", "s", "e", " ", "c", "o", "n", "t", "e", "n", "t", " ", "f", "r", "o", "m", " ", "L", "L", "M", ".">>

Returned(v) == [raised |-> FALSE, val |-> v]
Raised(e)   == [raised |-> TRUE,  val |-> e]

\* lines 254-265, for the value rr that http_post_json returned
openai_result(rr) ==
    LET choices == Get(rr, "choices", JList(<<>>))
        first   == choices.v[1]
        msg     == Get(first, "message", EmptyDict)
        content == Get(msg, "content", JNull)
        hasList == choices.t = "list" /\ choices.v # <<>>
    IN  IF rr.t # "dict" THEN Raised(AttributeError(rr))
        ELSE IF hasList /\ first.t # "dict" THEN Raised(AttributeError(first))
        ELSE IF hasList /\ msg.t = "dict" /\ NonBlankStr(content)
        THEN Returned(Strip(content.v))
        ELSE IF NonBlankStr(Get(rr, "text", JNull))
        THEN Returned(Strip(rr.v["text"].v))
        ELSE IF NonBlankStr(Get(rr, "_raw", JNull))
        THEN Returned(Strip(rr.v["_raw"].v))
        ELSE Returned(NoContent)

\* lines 294-298
ollama_result(rr) ==
    IF rr.t # "dict" THEN Raised(AttributeError(rr))
    ELSE IF NonBlankStr(Get(rr, "response", JNull))
    THEN Returned(Strip(rr.v["response"].v))
    ELSE IF NonBlankStr(Get(rr, "_raw", JNull))
    THEN Returned(Strip(rr.v["_raw"].v))
    ELSE Returned(NoContent)

\* call_llm's choice of provider
provider_result(rr) ==
    IF LLM_PROVIDER = "ollama" THEN ollama_result(rr) ELSE openai_result(rr)

\* a faulty variant: one attempt fewer
RangeEnd_one_fewer == HTTP_RETRIES

\* for i in range(HTTP_RETRIES + 1)
RangeEnd == HTTP_RETRIES + 1

\* f"LLM error: {last_err or 'unknown'}"
LLMError(err) ==
    <<"L", "L", "M", " ", "e", "r", "r", "o", "r", ":", " ">>
    \o (IF err \in {None, <<>>} THEN <<"u", "n", "k", "n", "o", "w", "n">> ELSE err)

\* a faulty variant: only the help trigger is a help request
IsHelpRequest_trigger_only(tr, pr) == tr = <<"h", "e", "l", "p">>

\* trig == "help" or (prompt or "").strip().lower() == "help"
IsHelpRequest(tr, pr) ==
    tr = <<"h", "e", "l", "p">> \/ Lower(Strip(IF pr = None THEN <<>> ELSE pr)) = <<"h", "e", "l", "p">>

\* a faulty variant: the catch-all writes nothing
CatchAllOutput_nothing(e) == <<>>

\* the __main__ block's except branch: chunks = ensure_under_limits(f"Error: {e}");
\* out_single(chunks[0])
CatchAllOutput(e) == <<out_single(ensure_under_limits(<<"E", "r", "r", "o", "r", ":", " ">> \o e)[1])>>

----------------------------------------------------------------------------
(* Inputs *)

\* one character of each UTF-8 width, the space and a newline
Alphabet == {" ", "\n", "a", "U+00E9", "U+20AC", "U+1F600"}

Run(n) == [k \in 1..n |-> "a"]

Tails == UNION {[1..n -> Alphabet] : n \in 0..MaxTail}

\* short texts, and texts with a long word before and after the free part,
\* so that a space can sit at index 9 or 10 of a candidate and a candidate
\* can be long enough for 0.4 * len to exceed 10
Shapes == {<<0, 0>>, <<9, 0>>, <<10, 0>>, <<10, 17>>}
Texts == {Run(sh[1]) \o m \o Run(sh[2]) : sh \in Shapes, m \in Tails}

CharLimits == {1, 2, 11, 28}
ByteLimits == {1, 2, 3, 4, 28}

NoCall == [fn |-> "", text |-> <<>>, max_chars |-> 0, max_bytes |-> 0]
NoRet  == [done |-> FALSE, val |-> <<>>]

UnitIdle  == call = NoCall /\ ret = NoRet
SplitIdle ==
    /\ text = <<>> /\ max_chars = 0 /\ max_bytes = 0
    /\ remaining = <<>> /\ chunks = <<>> /\ brk = "" /\ split_pc = "idle"
\* the defaults of lines 42-74
ConfDefault ==
    /\ LLM_PROVIDER = "openai_compat" /\ HTTP_RETRIES = 2
    /\ MAX_MSG_CHARS = 200 /\ MAX_MSG_BYTES = 200 /\ MAX_CHUNKS = 4
    /\ SPLIT_LONG_RESPONSES = TRUE /\ TRUNCATE_WITH_ELLIPSIS = TRUE
MainIdle ==
    /\ stdin = [kind |-> "empty", raw |-> <<>>, json |-> JNull]
    /\ stdout = <<>> /\ pc = "idle" /\ exc = None /\ payload = JNull
    /\ msg_in = <<>> /\ trig = None /\ prompt = None /\ answer = None
    /\ main_chunks = <<>> /\ llm_calls = 0
LlmIdle ==
    i = 0 /\ r = JNull /\ last_err = None /\ sleeps = 0 /\ http_log = <<>>

----------------------------------------------------------------------------
(* clamp_utf8 applied to every input *)

ClampInit ==
    /\ ConfDefault /\ MainIdle /\ LlmIdle /\ SplitIdle
    /\ call \in [fn : {"clamp_utf8"}, text : Texts,
                 max_chars : CharLimits, max_bytes : ByteLimits]
    /\ ret = NoRet

ClampCall ==
    /\ call.fn = "clamp_utf8" /\ ~ret.done
    /\ ret' = [done |-> TRUE,
               val  |-> clamp_utf8(call.text, call.max_chars, call.max_bytes)]
    /\ UNCHANGED <<call, confVars, mainVars, llmVars, splitVars>>

ClampNext == ClampCall
SpecClamp == ClampInit /\ [][ClampNext]_vars

----------------------------------------------------------------------------
(* parse_prompt applied to every message *)

MsgHeads ==
    {<<>>, AGENT_TRIGGERS[1], AGENT_TRIGGERS[2], AGENT_TRIGGERS[3],
     <<"!", "A", "S", "K">>, <<"!", "a", "s">>, <<"x", "!", "a", "s", "k">>, <<" ", "@", "a", "i">>}
MsgAlphabet == {" ", ":", "-", "i", "h"}
MsgTails ==
    UNION {[1..n -> MsgAlphabet] : n \in 0..MaxMsgTail}
        \cup {<<" ", "h", "e", "l", "p">>, <<" ", "H", "E", "L", "P">>, <<":", " ", "h", "e", "l", "p">>, <<"i", "n", "g", " ", "f", "o", "o">>}
Messages == {h \o t : h \in MsgHeads, t \in MsgTails}

ParseInit ==
    /\ ConfDefault /\ MainIdle /\ LlmIdle /\ SplitIdle
    /\ call \in [fn : {"parse_prompt"}, text : Messages,
                 max_chars : {0}, max_bytes : {0}]
    /\ ret = NoRet

ParseCall ==
    /\ call.fn = "parse_prompt" /\ ~ret.done
    /\ ret' = [done |-> TRUE, val |-> parse_prompt(call.text)]
    /\ UNCHANGED <<call, confVars, mainVars, llmVars, splitVars>>

ParseNext == ParseCall
SpecParse == ParseInit /\ [][ParseNext]_vars

----------------------------------------------------------------------------
(* split_meshtastic, one loop iteration per step *)

SplitInit ==
    /\ UnitIdle /\ MainIdle /\ LlmIdle
    /\ LLM_PROVIDER = "openai_compat" /\ HTTP_RETRIES = 2
    /\ MAX_MSG_CHARS = 200 /\ MAX_MSG_BYTES = 200
    /\ SPLIT_LONG_RESPONSES = TRUE
    /\ MAX_CHUNKS \in 1..MaxChunksCfg
    /\ TRUNCATE_WITH_ELLIPSIS \in BOOLEAN
    /\ text \in Texts /\ max_chars \in CharLimits /\ max_bytes \in ByteLimits
    /\ remaining = <<>> /\ chunks = <<>> /\ brk = "" /\ split_pc = "entry"

\* lines 107-115
SplitEntry ==
    /\ split_pc = "entry"
    /\ LET s == Strip(text)
       IN  IF s = <<>>
           THEN /\ chunks' = << <<>> >> /\ remaining' = <<>> /\ split_pc' = "done"
           ELSE IF Len(s) <= max_chars /\ Utf8Len(s) <= max_bytes
           THEN /\ chunks' = <<s>> /\ remaining' = <<>> /\ split_pc' = "done"
           ELSE /\ chunks' = <<>> /\ remaining' = s /\ split_pc' = "loop"
    /\ UNCHANGED <<text, max_chars, max_bytes, brk, confVars, mainVars, llmVars, unitVars>>

\* lines 117-147
SplitLoopBody ==
    /\ split_pc = "loop" /\ remaining # <<>> /\ brk = ""
    /\ \E st \in {LoopBody(remaining, chunks, max_chars, max_bytes)} :
           /\ remaining' = st.remaining
           /\ chunks' = st.chunks
           /\ brk' = st.brk
    /\ UNCHANGED <<text, max_chars, max_bytes, split_pc,
                   confVars, mainVars, llmVars, unitVars>>

\* line 149
SplitReturn ==
    /\ split_pc = "loop" /\ (remaining = <<>> \/ brk # "")
    /\ chunks' = IF chunks # <<>> THEN chunks ELSE << <<>> >>
    /\ split_pc' = "done"
    /\ UNCHANGED <<text, max_chars, max_bytes, remaining, brk,
                   confVars, mainVars, llmVars, unitVars>>

SplitNext == SplitEntry \/ SplitLoopBody \/ SplitReturn
SpecSplit == SplitInit /\ [][SplitNext]_vars

----------------------------------------------------------------------------
(* The process: main and the __main__ block *)

MainMessages ==
    {<<"h", "e", "l", "l", "o", " ", "w", "o", "r", "l", "d">>,
     <<"!", "a", "s", "k", " ", "h", "e", "l", "p">>, <<"@", "A", "I", " ", "H", "E", "L", "P">>,
     <<"!", "a", "s", "k">>, <<"!", "a", "s", "k", " ">>, <<"!", "a", "s", "k", ":", " ", "h", "e", "l", "p">>,
     <<"@", "c", "l", "a", "w", ":", " ", "h", "i">>, <<"!", "a", "s", "k", " ", "h", "i">>,
     <<"!", "a", "s", "k", "i", "n", "g", " ", "h", "i">>,
     <<" ", " ">>}

StdinFlat ==
    {[kind |-> "json", raw |-> <<>>, json |-> JDict([message |-> JStr(m)])] :
        m \in MainMessages}

\* text that json.loads rejects
StdinText ==
    {[kind |-> "text", raw |-> m, json |-> JNull] :
        m \in {<<"h", "e", "l", "l", "o", " ", "w", "o", "r", "l", "d">>, <<"!", "a", "s", "k", " ", "h", "i">>}}

Hi == JStr(<<"!", "a", "s", "k", " ", "h", "i">>)

StdinOther ==
    << [kind |-> "empty", raw |-> <<>>, json |-> JNull],
       [kind |-> "undecodable", raw |-> <<>>, json |-> JNull],
       [kind |-> "json", raw |-> <<>>, json |-> JList(<<>>)],
       [kind |-> "json", raw |-> <<>>, json |-> JNum],
       [kind |-> "json", raw |-> <<>>, json |-> JStr(<<"!", "a", "s", "k", " ", "h", "i">>)],
       [kind |-> "json", raw |-> <<>>, json |-> EmptyDict],
       [kind |-> "json", raw |-> <<>>, json |-> JDict([packet |-> JNum])],
       [kind |-> "json", raw |-> <<>>,
        json |-> JDict([message |-> JNum, text |-> Hi])],
       [kind |-> "json", raw |-> <<>>,
        json |-> JDict([message |-> JStr(<<" ">>),
                        packet  |-> JDict([decoded |-> JDict([text |-> Hi])])])],
       [kind |-> "json", raw |-> <<>>,
        json |-> JDict([message |-> JStr(<<"h", "e", "l", "l", "o", " ", "w", "o", "r", "l", "d">>),
                        decoded |-> JDict([text |-> Hi])])] >>

ChatBody(content) ==
    JDict([choices |-> JList(<<JDict([message |-> JDict([content |-> content])])>>)])

\* what one call of http_post_json does: it raises (str(e) is err), or it
\* returns the parsed body r, {"_raw": body} when the body is no JSON
HttpOutcomes ==
    << [kind |-> "raise", err |-> <<"t", "i", "m", "e", "d", " ", "o", "u", "t">>, r |-> JNull],
       [kind |-> "raise", err |-> <<>>, r |-> JNull],
       [kind |-> "body", err |-> <<>>, r |-> ChatBody(JStr(<<"2", "5">>))],
       [kind |-> "body", err |-> <<>>,
        r |-> ChatBody(JStr(<<"F", "i", "v", "e", " ", "t", "i", "m", "e", "s", " ", "f", "i", "v", "e", " ", "i", "s", " ", "2", "5", ".">>))],
       [kind |-> "body", err |-> <<>>,
        r |-> JDict([choices |-> JList(<<>>), text |-> JStr(<<" ", "t", "e", "x", "t", " ">>)])],
       [kind |-> "body", err |-> <<>>,
        r |-> JDict([choices |-> JList(<<JDict([message |-> JStr(<<"2", "5">>)])>>),
                     text |-> JNum, _raw |-> JStr(<<"<", "h", "t", "m", "l", ">">>)])],
       [kind |-> "body", err |-> <<>>, r |-> JDict([_raw |-> JStr(<<"<", "h", "t", "m", "l", ">">>)])],
       [kind |-> "body", err |-> <<>>, r |-> JDict([response |-> JStr(<<"o", "k">>)])],
       [kind |-> "body", err |-> <<>>, r |-> ChatBody(JStr(<<" ", " ">>))],
       [kind |-> "body", err |-> <<>>, r |-> EmptyDict],
       [kind |-> "body", err |-> <<>>,
        r |-> JDict([choices |-> JList(<<JStr(<<"2", "5">>)>>), text |-> JStr(<<" ", "t", "e", "x", "t", " ">>)])],
       [kind |-> "body", err |-> <<>>, r |-> JList(<<>>)] >>

MsgLimits == {12, 200}

MainInit ==
    /\ UnitIdle /\ SplitIdle /\ LlmIdle
    /\ LLM_PROVIDER \in {"openai_compat", "ollama"}
    /\ HTTP_RETRIES \in 0..MaxRetries
    /\ MAX_MSG_CHARS \in MsgLimits /\ MAX_MSG_BYTES \in MsgLimits
    /\ MAX_CHUNKS = 4
    /\ SPLIT_LONG_RESPONSES \in BOOLEAN
    /\ TRUNCATE_WITH_ELLIPSIS = TRUE
    /\ \/ stdin \in StdinFlat
       \/ stdin \in StdinText
       \/ \E k \in 1..Len(StdinOther) : stdin = StdinOther[k]
    /\ stdout = <<>> /\ pc = "start" /\ exc = None /\ payload = JNull
    /\ msg_in = <<>> /\ trig = None /\ prompt = None /\ answer = None
    /\ main_chunks = <<>> /\ llm_calls = 0

\* line 350: sys.stdin.read() raises UnicodeDecodeError on bytes that are
\* no UTF-8
ReadStdin ==
    /\ pc = "start"
    /\ IF stdin.kind = "undecodable"
       THEN /\ exc' = UnicodeDecodeError
            /\ pc' = "except"
            /\ payload' = payload
       ELSE /\ payload' = read_stdin_json(stdin)
            /\ pc' = "extract"
            /\ exc' = exc
    /\ UNCHANGED <<stdin, stdout, msg_in, trig, prompt, answer, main_chunks,
                   llm_calls, confVars, llmVars, unitVars, splitVars>>

\* line 351: payload.get raises AttributeError when the JSON text is no object
ExtractMessage ==
    /\ pc = "extract"
    /\ IF payload.t = "dict"
       THEN /\ msg_in' = extract_message(payload)
            /\ pc' = "parse"
            /\ exc' = exc
       ELSE /\ exc' = AttributeError(payload)
            /\ pc' = "except"
            /\ msg_in' = msg_in
    /\ UNCHANGED <<stdin, stdout, payload, trig, prompt, answer, main_chunks,
                   llm_calls, confVars, llmVars, unitVars, splitVars>>

\* line 353
ParsePrompt ==
    /\ pc = "parse"
    /\ \E tp \in {parse_prompt(msg_in)} : trig' = tp[1] /\ prompt' = tp[2]
    /\ pc' = "dispatch"
    /\ UNCHANGED <<stdin, stdout, exc, payload, msg_in, answer, main_chunks,
                   llm_calls, confVars, llmVars, unitVars, splitVars>>

\* lines 355-359
NoTrigger ==
    /\ pc = "dispatch" /\ trig = None
    /\ \E chs \in {ensure_under_limits(NoTriggerText)} :
          /\ main_chunks' = chs
          /\ stdout' = Append(stdout, out_single(chs[1]))
    /\ pc' = "exit"
    /\ UNCHANGED <<stdin, exc, payload, msg_in, trig, prompt, answer,
                   llm_calls, confVars, llmVars, unitVars, splitVars>>

\* lines 361-364
Help ==
    /\ pc = "dispatch" /\ trig # None /\ IsHelpRequest(trig, prompt)
    /\ \E chs \in {ensure_under_limits(help_text)} :
          /\ main_chunks' = chs
          /\ stdout' = Append(stdout, out_by_count(chs))
    /\ pc' = "exit"
    /\ UNCHANGED <<stdin, exc, payload, msg_in, trig, prompt, answer,
                   llm_calls, confVars, llmVars, unitVars, splitVars>>

\* lines 366-369
MissingPrompt ==
    /\ pc = "dispatch" /\ trig # None /\ ~IsHelpRequest(trig, prompt)
    /\ Strip(prompt) = <<>>
    /\ \E chs \in {ensure_under_limits(MissingPromptText)} :
          /\ main_chunks' = chs
          /\ stdout' = Append(stdout, out_single(chs[1]))
    /\ pc' = "exit"
    /\ UNCHANGED <<stdin, exc, payload, msg_in, trig, prompt, answer,
                   llm_calls, confVars, llmVars, unitVars, splitVars>>

\* line 371, up to the head of the retry loop (lines 250-251, 290-291)
CallLLM ==
    /\ pc = "dispatch" /\ trig # None /\ ~IsHelpRequest(trig, prompt)
    /\ Strip(prompt) # <<>>
    /\ llm_calls' = llm_calls + 1
    /\ i' = 0 /\ last_err' = None
    /\ pc' = "http"
    /\ UNCHANGED <<stdin, stdout, exc, payload, msg_in, trig, prompt, answer,
                   main_chunks, r, sleeps, http_log,
                   confVars, unitVars, splitVars>>

\* one pass through the retry loop: lines 252-269, 292-302
HttpAttempt ==
    /\ pc = "http" /\ i < RangeEnd
    /\ \E k \in 1..Len(HttpOutcomes) :
        \E res \in {IF HttpOutcomes[k].kind = "raise"
                    THEN Raised(HttpOutcomes[k].err)
                    ELSE provider_result(HttpOutcomes[k].r)} :
          /\ http_log' = Append(http_log, HttpOutcomes[k].kind)
          /\ r' = IF HttpOutcomes[k].kind = "body" THEN HttpOutcomes[k].r ELSE r
          /\ IF res.raised
             THEN /\ last_err' = res.val
                  /\ sleeps' = IF i < HTTP_RETRIES THEN sleeps + 1 ELSE sleeps
                  /\ i' = i + 1
                  /\ UNCHANGED <<pc, answer>>
             ELSE /\ answer' = res.val
                  /\ pc' = "answered"
                  /\ UNCHANGED <<last_err, sleeps, i>>
    /\ UNCHANGED <<stdin, stdout, exc, payload, msg_in, trig, prompt,
                   main_chunks, llm_calls, confVars, unitVars, splitVars>>

\* lines 271, 304: the loop ran out of attempts
RetriesExhausted ==
    /\ pc = "http" /\ i >= RangeEnd
    /\ answer' = LLMError(last_err)
    /\ pc' = "answered"
    /\ UNCHANGED <<stdin, stdout, exc, payload, msg_in, trig, prompt,
                   main_chunks, llm_calls, confVars, llmVars, unitVars, splitVars>>

\* lines 372-373
EmitAnswer ==
    /\ pc = "answered"
    /\ \E chs \in {ensure_under_limits(answer)} :
          /\ main_chunks' = chs
          /\ stdout' = Append(stdout, out_by_count(chs))
    /\ pc' = "exit"
    /\ UNCHANGED <<stdin, exc, payload, msg_in, trig, prompt, answer,
                   llm_calls, confVars, llmVars, unitVars, splitVars>>

\* lines 379-381
CatchAll ==
    /\ pc = "except"
    /\ main_chunks' = ensure_under_limits(<<"E", "r", "r", "o", "r", ":", " ">> \o exc)
    /\ stdout' = stdout \o CatchAllOutput(exc)
    /\ pc' = "exit"
    /\ UNCHANGED <<stdin, exc, payload, msg_in, trig, prompt, answer,
                   llm_calls, confVars, llmVars, unitVars, splitVars>>

Next ==
    \/ ReadStdin \/ ExtractMessage \/ ParsePrompt
    \/ NoTrigger \/ Help \/ MissingPrompt \/ CallLLM
    \/ HttpAttempt \/ RetriesExhausted \/ EmitAnswer
    \/ CatchAll

Init == MainInit
Spec == Init /\ [][Next]_vars

----------------------------------------------------------------------------
(* Helpers of the properties *)

RECURSIVE Concat(_)
Concat(ss) == IF ss = <<>> THEN <<>> ELSE Head(ss) \o Concat(Tail(ss))

\* the characters of s that are not whitespace, in order
NonWs(s) == SelectSeq(s, LAMBDA ch : ~IsSpace(ch))

IsPrefixOf(p, s) == Len(p) <= Len(s) /\ SubSeq(s, 1, Len(p)) = p

WithinLimits(f, c, b) == Len(f) <= c /\ Utf8Len(f) <= b

\* the fragments without the one ellipsis character added at the chunk cap
WithoutEllipsis(chs) ==
    IF brk = "cap" /\ TRUNCATE_WITH_ELLIPSIS
    THEN [chs EXCEPT ![Len(chs)] = SubSeq(@, 1, Len(@) - 1)]
    ELSE chs

\* no character of the input is wider than the byte bound
AllFit == \A k \in 1..Len(text) : Utf8Width(text[k]) <= max_bytes

----------------------------------------------------------------------------
(* Properties of split_meshtastic *)

\* C1: every fragment returned by split_meshtastic has character length
\* <= max_chars and UTF-8 byte length <= max_bytes, the fragment given the
\* ellipsis at the chunk cap included.
C1_FragmentsWithinLimits ==
    split_pc = "done" =>
        \A k \in 1..Len(chunks) : WithinLimits(chunks[k], max_chars, max_bytes)

\* C2: split_meshtastic returns between 1 and MAX_CHUNKS fragments, and the
\* non-whitespace characters of the fragments in order (the ellipsis added at
\* the cap removed) are a prefix of the non-whitespace characters of the input.
C2_CountAndPrefix ==
    split_pc = "done" =>
        /\ Len(chunks) >= 1 /\ Len(chunks) <= MAX_CHUNKS
        /\ IsPrefixOf(NonWs(Concat(WithoutEllipsis(chunks))), NonWs(text))

\* a truncated, multi-fragment result that lost text and carries the ellipsis
C2_Witness ==
    /\ split_pc = "done" /\ brk = "cap" /\ TRUNCATE_WITH_ELLIPSIS
    /\ Len(chunks) >= 2
    /\ chunks[Len(chunks)][Len(chunks[Len(chunks)])] = ELL
    /\ Len(chunks[Len(chunks)]) >= 2
    /\ \E k \in 1..Len(text) : text[k] = " "

\* C8 as stated: for a non-blank input the loop ends only because the text is
\* exhausted or the cap is reached; with fewer than MAX_CHUNKS fragments every
\* non-whitespace character of the input is in the fragments, and the result
\* is never [""].
C8_OnlyStopsAOrB ==
    (split_pc = "done" /\ Strip(text) # <<>>) =>
        /\ brk # "no_candidate"
        /\ Len(chunks) < MAX_CHUNKS => NonWs(Concat(chunks)) = NonWs(text)
        /\ chunks # << <<>> >>

\* C8 amended: the loop ends because the text is exhausted, because the cap is
\* reached, or because the next character of the remaining text alone is wider
\* than max_bytes (empty candidate); when no character of a non-blank input is
\* wider than max_bytes and the result has fewer than MAX_CHUNKS fragments,
\* every non-whitespace character of the input is in the fragments; the result
\* of a non-blank input is [""] exactly when its first character is wider
\* than max_bytes.
C8_StopsAOrBOrNoCandidate ==
    (split_pc = "done" /\ Strip(text) # <<>>) =>
        /\ brk = "no_candidate" =>
              remaining # <<>> /\ Utf8Width(remaining[1]) > max_bytes
        /\ brk = "cap" => remaining # <<>> /\ Len(chunks) >= MAX_CHUNKS
        /\ brk = "" => remaining = <<>>
        /\ (AllFit /\ Len(chunks) < MAX_CHUNKS) =>
              NonWs(Concat(chunks)) = NonWs(text)
        /\ chunks = << <<>> >> <=> Utf8Width(Strip(text)[1]) > max_bytes

\* a non-blank input split into two fragments below a cap of three
C8_Witness ==
    /\ split_pc = "done" /\ Strip(text) # <<>> /\ AllFit
    /\ MAX_CHUNKS = 3 /\ Len(chunks) = 2 /\ brk = ""

----------------------------------------------------------------------------
(* Properties of clamp_utf8 *)

----------------------------------------------------------------------------
(* Properties of parse_prompt *)

\* the trimmed message begins with the token trig: trig itself, then the end
\* of the message, whitespace, or the ':' or '-' separator
FirstTokenIs(m, tg) ==
    /\ StartsWith(m, tg)
    /\ (Len(m) = Len(tg) \/ IsSpace(m[Len(tg) + 1])
                         \/ m[Len(tg) + 1] \in {":", "-"})

IsAgentTrigger(t) == \E k \in 1..Len(AGENT_TRIGGERS) : AGENT_TRIGGERS[k] = t

\* C7: parse_prompt returns an agent trigger only when the first token of the
\* trimmed message is exactly that trigger (possibly followed directly by ':'
\* or '-'); a longer word that begins with a trigger's characters yields
\* (None, None).
C7_TriggerIsWholeFirstToken ==
    ret.done =>
        /\ IsAgentTrigger(ret.val[1]) => FirstTokenIs(Strip(call.text), ret.val[1])
        /\ (~\E k \in 1..Len(AGENT_TRIGGERS) :
                FirstTokenIs(Strip(call.text), AGENT_TRIGGERS[k])) /\ ret.val[1] # <<"h", "e", "l", "p">>
              => ret.val = <<None, None>>

----------------------------------------------------------------------------
(* Properties of the process *)

\* the number of steps the process can still take: it falls with every step,
\* so no invocation runs for ever
Rank ==
    CASE pc = "start"    -> 9 + HTTP_RETRIES
      [] pc = "extract"  -> 8 + HTTP_RETRIES
      [] pc = "parse"    -> 7 + HTTP_RETRIES
      [] pc = "dispatch" -> 6 + HTTP_RETRIES
      [] pc = "http"     -> 3 + Max(0, HTTP_RETRIES + 1 - i)
      [] pc = "answered" -> 2
      [] pc = "except"   -> 1
      [] OTHER           -> 0

\* C4: every invocation ends having written exactly one JSON envelope to
\* standard output, whatever the stdin content and the branch taken, and
\* whether or not a step of main raises: never zero envelopes, never two
\* (the catch-all writes only when main has written none); every step brings
\* the process nearer to its exit.
C4_ExactlyOneEnvelope ==
    /\ [](/\ Len(stdout) <= 1
          /\ pc = "exit" => Len(stdout) = 1
          /\ pc = "except" => stdout = <<>>
          /\ pc # "exit" => Rank > 0)
    /\ [][Rank' < Rank]_vars

\* main raised, and the catch-all wrote the only envelope
C4_Witness ==
    /\ pc = "exit" /\ exc # None /\ Len(stdout) = 1
    /\ stdout[1].key = "response"
    /\ StartsWith(stdout[1].value[1], <<"E", "r", "r", "o", "r", ":", " ">>)

\* C5: in every branch and for every configured limit the envelope is
\* {"response": f} exactly when the fragment list computed for the reply has
\* one fragment f, and {"responses": all fragments} exactly when it has more
\* than one; no computed fragment is left out.
C5_EnvelopeMatchesFragments ==
    pc = "exit" =>
        /\ Len(stdout) = 1
        /\ Len(main_chunks) = 1 <=> stdout[1] = out_single(main_chunks[1])
        /\ Len(main_chunks) > 1 <=> stdout[1] = out_multi(main_chunks)

AllRaised == \A k \in 1..Len(http_log) : http_log[k] = "raise"

\* C6: if every HTTP attempt raises, the client makes exactly HTTP_RETRIES + 1
\* attempts, sleeps after each failed attempt but the last (HTTP_RETRIES
\* sleeps in all) and returns, without raising, a string that starts with
\* "LLM error: "; for both providers and every HTTP_RETRIES >= 0.
C6_AllAttemptsFail ==
    /\ (pc = "http" /\ AllRaised) =>
          /\ Len(http_log) <= HTTP_RETRIES + 1
          /\ sleeps = Min(Len(http_log), HTTP_RETRIES)
    /\ (pc \in {"answered", "exit"} /\ llm_calls = 1 /\ AllRaised) =>
          /\ Len(http_log) = HTTP_RETRIES + 1
          /\ sleeps = HTTP_RETRIES
          /\ StartsWith(answer, <<"L", "L", "M", " ", "e", "r", "r", "o", "r", ":", " ">>)
          /\ exc = None

\* three failed requests to the generate protocol, then the error string
C6_Witness ==
    /\ pc = "answered" /\ LLM_PROVIDER = "ollama" /\ HTTP_RETRIES = 2
    /\ http_log = <<"raise", "raise", "raise">> /\ sleeps = 2
    /\ answer = LLMError(<<"t", "i", "m", "e", "d", " ", "o", "u", "t">>)

HasStr(rr, k) == rr.t = "dict" /\ k \in DOMAIN rr.v /\ NonBlankStr(rr.v[k])

\* choices[0].message.content of a body, where the body has that shape
ChoicesContent(rr) ==
    IF /\ rr.t = "dict" /\ "choices" \in DOMAIN rr.v
       /\ rr.v["choices"].t = "list" /\ rr.v["choices"].v # <<>>
       /\ rr.v["choices"].v[1].t = "dict"
       /\ "message" \in DOMAIN rr.v["choices"].v[1].v
       /\ HasStr(rr.v["choices"].v[1].v["message"], "content")
    THEN Strip(rr.v["choices"].v[1].v["message"].v["content"].v)
    ELSE <<>>

\* the string the fallback order chooses for a response body
FallbackAnswer(rr) ==
    IF LLM_PROVIDER = "ollama"
    THEN IF HasStr(rr, "response") THEN Strip(rr.v["response"].v)
         ELSE IF HasStr(rr, "_raw") THEN Strip(rr.v["_raw"].v)
         ELSE NoContent
    ELSE IF ChoicesContent(rr) # <<>> THEN ChoicesContent(rr)
         ELSE IF HasStr(rr, "text") THEN Strip(rr.v["text"].v)
         ELSE IF HasStr(rr, "_raw") THEN Strip(rr.v["_raw"].v)
         ELSE NoContent

\* C9: a further attempt is made only after a request failure: once an attempt
\* has received a response body, whatever its shape, the client makes no more
\* attempts and returns the string the fallback order chooses for that body,
\* never an "LLM error: " string.
C9_NoRetryAfterBody ==
    /\ \A k \in 1..Len(http_log) : http_log[k] = "body" => k = Len(http_log)
    /\ (pc \in {"answered", "exit"} /\ ~AllRaised) =>
          /\ answer = FallbackAnswer(r)
          /\ ~StartsWith(answer, <<"L", "L", "M", " ", "e", "r", "r", "o", "r", ":", " ">>)

\* the message asks for help: the help phrase, or a trigger with prompt "help"
IsHelpCase ==
    trig = <<"h", "e", "l", "p">> \/ (prompt # None /\ Lower(Strip(prompt)) = <<"h", "e", "l", "p">>)

\* the reply written is the first fragment of the fixed text t
RepliesWith(t) ==
    /\ main_chunks = ensure_under_limits(t)
    /\ Len(stdout) = 1 /\ stdout[1].value[1] = main_chunks[1]

\* C10: the dispatcher calls the backend client at most once, before anything
\* is written to standard output, and only when the parsed trigger is an agent
\* trigger and the trimmed prompt is neither empty nor "help" (in any case);
\* on the no-trigger, help and missing-prompt branches no HTTP request is made
\* and the reply is the fixed text of the branch.
C10_BackendCalledOnlyForPrompts ==
    /\ llm_calls <= 1
    /\ llm_calls = 1 =>
          /\ IsAgentTrigger(trig)
          /\ Strip(prompt) # <<>> /\ Lower(Strip(prompt)) # <<"h", "e", "l", "p">>
    /\ llm_calls = 0 => http_log = <<>>
    /\ pc \in {"http", "answered"} => stdout = <<>>
    /\ (pc = "exit" /\ exc = None) =>
          /\ trig = None => llm_calls = 0 /\ RepliesWith(NoTriggerText)
          /\ IsHelpCase => llm_calls = 0 /\ RepliesWith(help_text)
          /\ (trig # None /\ ~IsHelpCase /\ Strip(prompt) = <<>>) =>
                llm_calls = 0 /\ RepliesWith(MissingPromptText)

\* a prompt was answered by the backend after a retry
C10_Witness ==
    /\ pc = "exit" /\ llm_calls = 1 /\ Len(http_log) = 2 /\ Len(stdout) = 1
    /\ stdout[1].key = "responses"

====
